---- MODULE Spec2Model ----
(***************************************************************************)
(* Host ISA capability resolver of cranelift-native                        *)
(* (cranelift/native/src/lib.rs): builder() and builder_with_options().    *)
(*                                                                         *)
(* A behaviour fixes one host (target triple, outcome of isa::lookup, the  *)
(* hardware feature bits) and then runs a bounded number of resolver       *)
(* calls against it, one source step per action.                           *)
(***************************************************************************)
EXTENDS Integers, Sequences, FiniteSets, TLC

\* Number of resolver calls made in one behaviour.
NumCalls == 2

\* Largest number of optional x86 extensions a modelled host reports present.
MaxDetected == 2

\* Largest number of per-proposal options given on one command line.
MaxGiven == 2

Calls == 1..NumCalls

(***************************************************************************)
(* The host: Triple::host(), isa::lookup's outcome, the hardware.          *)
(***************************************************************************)
X86Archs == {"x86", "x86_64"}

Archs == X86Archs \cup {"aarch64", "s390x", "riscv64"}

OSes == {"linux", "unknown"}

LookupOutcomes == {"Ok", "SupportDisabled", "Unsupported"}

\* Feature names handed to std::is_x86_feature_detected! after the baseline.
X86Optional ==
    {"sse3", "ssse3", "sse4.1", "sse4.2", "popcnt", "avx", "avx2", "bmi1",
     "bmi2", "avx512bitalg", "avx512dq", "avx512f", "avx512vl", "avx512vbmi",
     "lzcnt"}

\* Values of getauxval(AT_HWCAP) a modelled s390x host may report.
HwcapValues == {0, 1, 16384, 32767, 32768, 32769, 49152, 65536, 98304}

\* Hardware capabilities a host of the given architecture may have.
FeatureSets(arch) ==
    IF arch \in X86Archs
    THEN {s \cup b : s \in {t \in SUBSET X86Optional : Cardinality(t) <= MaxDetected},
                     b \in {{}, {"sse2"}}}
    ELSE IF arch = "aarch64" THEN {{}, {"lse"}}
    ELSE IF arch = "s390x" THEN {{}, {"mie2"}}
    ELSE {{}}

\* Names of the settings of the backend of an architecture.
ArchFlags(arch) ==
    IF arch \in X86Archs
    THEN {"has_sse3", "has_ssse3", "has_sse41", "has_sse42", "has_popcnt",
          "has_avx", "has_avx2", "has_bmi1", "has_bmi2", "has_avx512bitalg",
          "has_avx512dq", "has_avx512f", "has_avx512vl", "has_avx512vbmi",
          "has_lzcnt"}
    ELSE IF arch = "aarch64" THEN {"has_lse"}
    ELSE IF arch = "s390x" THEN {"has_vxrs_ext2", "has_mie2"}
    ELSE {}

\* settings: the setting names the backend isa::lookup finds accepts.
Hosts ==
    UNION {[arch : {a}, os : OSes, lookup : LookupOutcomes,
            features : FeatureSets(a),
            hwcap : IF a = "s390x" THEN HwcapValues ELSE {0},
            settings : {ArchFlags(a)}] : a \in Archs}

(***************************************************************************)
(* isa::Builder, as far as the resolver uses it.                           *)
(***************************************************************************)
\* The builder isa::lookup returns: every setting at the backend's default.
LookupBuilder(h) ==
    [arch |-> h.arch, flags |-> [n \in h.settings |-> "default"]]

NoBuilder == [arch |-> "none", flags |-> [n \in {} |-> "default"]]

\* Builder::set(name, value): fails on a name the backend does not know and
\* on a value that is not a boolean.
BuilderSet(b, name, value) ==
    IF name \in DOMAIN b.flags /\ value \in {"0", "1"}
    THEN [ok |-> TRUE, builder |-> [b EXCEPT !.flags[name] = value]]
    ELSE [ok |-> FALSE, builder |-> b]

\* Default of every optional capability setting.
ArchDefault(name) == FALSE

\* The boolean a finished backend reads from a setting.
Enabled(b, name) ==
    IF b.flags[name] = "default" THEN ArchDefault(name) ELSE b.flags[name] = "1"

(***************************************************************************)
(* Results of the resolver.                                                *)
(***************************************************************************)
Ok(b) == [kind |-> "Ok", builder |-> b, msg |-> ""]

Err(m) == [kind |-> "Err", builder |-> NoBuilder, msg |-> m]

NoResult == [kind |-> "None", builder |-> NoBuilder, msg |-> ""]

(***************************************************************************)
(* Hardware queries.                                                       *)
(***************************************************************************)
\* std::is_x86_feature_detected!(feature)
IsX86FeatureDetected(h, feature) == feature \in h.features

\* std::is_aarch64_feature_detected!(feature)
IsAarch64FeatureDetected(h, feature) == feature \in h.features

\* libc::getauxval(libc::AT_HWCAP)
Getauxval(h) == h.hwcap

\* The mask of the neighbouring HWCAP bit.
HWCAP_S390X_VXRS_EXT2_neighbour == 32768 \div 2

HWCAP_S390X_VXRS_EXT2 == 32768

\* a & b on unsigned integers.
RECURSIVE BitAnd(_, _)
BitAnd(a, b) ==
    IF a = 0 \/ b = 0 THEN 0
    ELSE (IF a % 2 = 1 /\ b % 2 = 1 THEN 1 ELSE 0) + 2 * BitAnd(a \div 2, b \div 2)

(***************************************************************************)
(* Pieces of builder_with_options.                                         *)
(***************************************************************************)
\* MapErr with the two messages exchanged.
MapErr_swapped(err) ==
    IF err = "SupportDisabled"
    THEN "unsupported architecture"
    ELSE "support for architecture disabled at compile time"

\* The closure handed to map_err.
MapErr(err) ==
    IF err = "SupportDisabled"
    THEN "support for architecture disabled at compile time"
    ELSE "unsupported architecture"

\* BaselineMissing testing the wrong feature name.
BaselineMissing_sse3(h) == ~IsX86FeatureDetected(h, "sse3")

\* The x86 baseline test: !is_x86_feature_detected!("sse2").
BaselineMissing(h) == ~IsX86FeatureDetected(h, "sse2")

\* FlagValue with the two branches exchanged.
FlagValue_inverted(detected) == IF detected THEN "0" ELSE "1"

\* if detected { "1" } else { "0" }
FlagValue(detected) == IF detected THEN "1" ELSE "0"

\* The set(..) calls of the x86 block, in source order.
X86Table ==
    << [name |-> "has_sse3",         feature |-> "sse3"],
       [name |-> "has_ssse3",        feature |-> "ssse3"],
       [name |-> "has_sse41",        feature |-> "sse4.1"],
       [name |-> "has_sse42",        feature |-> "sse4.2"],
       [name |-> "has_popcnt",       feature |-> "popcnt"],
       [name |-> "has_avx",          feature |-> "avx"],
       [name |-> "has_avx2",         feature |-> "avx2"],
       [name |-> "has_bmi1",         feature |-> "bmi1"],
       [name |-> "has_bmi2",         feature |-> "bmi2"],
       [name |-> "has_avx512bitalg", feature |-> "avx512bitalg"],
       [name |-> "has_avx512dq",     feature |-> "avx512dq"],
       [name |-> "has_avx512f",      feature |-> "avx512f"],
       [name |-> "has_avx512vl",     feature |-> "avx512vl"],
       [name |-> "has_avx512vbmi",   feature |-> "avx512vbmi"],
       [name |-> "has_lzcnt",        feature |-> "lzcnt"] >>

\* CfgBlock with the s390x block compiled for every operating system.
CfgBlock_s390x_any_os(h) ==
    IF h.arch \in X86Archs THEN "x86_sse2"
    ELSE IF h.arch = "aarch64" THEN "aarch64_mode"
    ELSE IF h.arch = "s390x" THEN "s390x_mode"
    ELSE "return"

\* CfgBlock with the x86 block compiled for x86_64 only.
CfgBlock_x86_64_only(h) ==
    IF h.arch = "x86_64" THEN "x86_sse2"
    ELSE IF h.arch = "aarch64" THEN "aarch64_mode"
    ELSE IF h.arch = "s390x" /\ h.os = "linux" THEN "s390x_mode"
    ELSE "return"

\* Which #[cfg(..)] block of builder_with_options the host's build contains.
CfgBlock(h) ==
    IF h.arch \in X86Archs THEN "x86_sse2"
    ELSE IF h.arch = "aarch64" THEN "aarch64_mode"
    ELSE IF h.arch = "s390x" /\ h.os = "linux" THEN "s390x_mode"
    ELSE "return"

(***************************************************************************)
(* State.                                                                  *)
(***************************************************************************)
VARIABLES
    host,                \* the machine the process runs on
    pc,                  \* position of each call
    entry,               \* public function each call entered through
    infer_native_flags,  \* argument of each call
    isa_builder,         \* local builder of each call
    idx,                 \* next row of X86Table of each call
    vxrs_ext2,           \* local of the s390x block of each call
    result,              \* value each call returned
    component_model,     \* cfg(feature = "component-model") of the build
    wasm,                \* CommonOptions.wasm: the proposal options
    config,              \* settings enable_wasm_features applied to the Config
    ewf_pc,              \* position of enable_wasm_features
    ewf_result           \* value enable_wasm_features returned

resolverVars == <<host, pc, entry, infer_native_flags, isa_builder, idx, vxrs_ext2, result>>

cliVars == <<component_model, wasm, config, ewf_pc, ewf_result>>

vars == <<host, pc, entry, infer_native_flags, isa_builder, idx, vxrs_ext2, result,
          component_model, wasm, config, ewf_pc, ewf_result>>

(***************************************************************************)
(* CommonOptions::enable_wasm_features (crates/cli-flags/src/lib.rs).      *)
(* Option<bool> is a sequence: << >> is None, <<b>> is Some(b).            *)
(***************************************************************************)
\* The if-let blocks before the component-model one, in source order.
WasmTable ==
    << [option |-> "simd",                setting |-> "wasm_simd"],
       [option |-> "relaxed_simd",        setting |-> "wasm_relaxed_simd"],
       [option |-> "bulk_memory",         setting |-> "wasm_bulk_memory"],
       [option |-> "reference_types",     setting |-> "wasm_reference_types"],
       [option |-> "function_references", setting |-> "wasm_function_references"],
       [option |-> "multi_value",         setting |-> "wasm_multi_value"],
       [option |-> "tail_call",           setting |-> "wasm_tail_call"],
       [option |-> "threads",             setting |-> "wasm_threads"],
       [option |-> "multi_memory",        setting |-> "wasm_multi_memory"],
       [option |-> "memory64",            setting |-> "wasm_memory64"] >>

ProposalOptions ==
    {"simd", "relaxed_simd", "bulk_memory", "reference_types",
     "function_references", "multi_value", "tail_call", "threads",
     "multi_memory", "memory64", "component_model"}

ConfigSettings ==
    {"wasm_simd", "wasm_relaxed_simd", "wasm_bulk_memory", "wasm_reference_types",
     "wasm_function_references", "wasm_multi_value", "wasm_tail_call",
     "wasm_threads", "wasm_multi_memory", "wasm_memory64", "wasm_component_model"}

OptionBool == {<< >>, <<TRUE>>, <<FALSE>>}

\* The command lines: all_proposals and at most MaxGiven proposal options.
WasmOptions ==
    {w \in [ProposalOptions \cup {"all_proposals"} -> OptionBool] :
        Cardinality({o \in ProposalOptions : w[o] # << >>}) <= MaxGiven}

NoOptions == [o \in ProposalOptions \cup {"all_proposals"} |-> << >>]

\* A Config none of whose proposal settings has been touched.
UntouchedConfig == [k \in ConfigSettings |-> << >>]

\* Option::or with the operands exchanged.
OptionOr_reversed(a, b) == IF b # << >> THEN b ELSE a

\* Option::or
OptionOr(a, b) == IF a # << >> THEN a ELSE b

\* Position of enable_wasm_features after it returned.
EwfDone == Len(WasmTable) + 3

\* enable_wasm_features is not running.
CliIdle ==
    /\ component_model = TRUE
    /\ wasm = NoOptions
    /\ config = UntouchedConfig
    /\ ewf_pc = 0
    /\ ewf_result = "None"

\* Entry: let all = self.wasm.all_proposals
enable_wasm_features ==
    /\ ewf_pc = 0
    /\ ewf_pc' = 1
    /\ UNCHANGED <<component_model, wasm, config, ewf_result>>

\* ewf_proposal with all_proposals taking precedence over the proposal's own
\* option.
ewf_proposal_all_first ==
    /\ ewf_pc \in 1..Len(WasmTable)
    /\ LET all == wasm["all_proposals"]
           row == WasmTable[ewf_pc]
           v   == OptionOr(all, wasm[row.option])
       IN  config' = IF v # << >> THEN [config EXCEPT ![row.setting] = <<v[1]>>]
                     ELSE config
    /\ ewf_pc' = ewf_pc + 1
    /\ UNCHANGED <<component_model, wasm, ewf_result>>

\* if let Some(enable) = self.wasm.<option>.or(all) { config.<setting>(enable) }
ewf_proposal ==
    /\ ewf_pc \in 1..Len(WasmTable)
    /\ LET all == wasm["all_proposals"]
           row == WasmTable[ewf_pc]
           v   == OptionOr(wasm[row.option], all)
       IN  config' = IF v # << >> THEN [config EXCEPT ![row.setting] = <<v[1]>>]
                     ELSE config
    /\ ewf_pc' = ewf_pc + 1
    /\ UNCHANGED <<component_model, wasm, ewf_result>>

\* The component-model block, under either cfg.
ewf_component_model ==
    /\ ewf_pc = Len(WasmTable) + 1
    /\ LET all == wasm["all_proposals"]
           v   == OptionOr(wasm["component_model"], all)
       IN  IF v # << >> /\ component_model
           THEN /\ config' = [config EXCEPT !["wasm_component_model"] = <<v[1]>>]
                /\ ewf_pc' = ewf_pc + 1
                /\ UNCHANGED ewf_result
           ELSE IF v # << >> /\ ~component_model /\ v[1] /\ all = << >>
           THEN /\ ewf_pc' = EwfDone
                /\ ewf_result' = "support for the component model was disabled at compile-time"
                /\ UNCHANGED config
           ELSE /\ ewf_pc' = ewf_pc + 1
                /\ UNCHANGED <<config, ewf_result>>
    /\ UNCHANGED <<component_model, wasm>>

\* The final Ok(()).
ewf_return ==
    /\ ewf_pc = Len(WasmTable) + 2
    /\ ewf_pc' = EwfDone
    /\ ewf_result' = "Ok"
    /\ UNCHANGED <<component_model, wasm, config>>

(***************************************************************************)
(* The resolver calls.                                                     *)
(***************************************************************************)

Finished == {"done", "panicked"}

\* The calls of one thread run one after the other.
InProgramOrder(c) == \A d \in Calls : d < c => pc[d] \in Finished

Init ==
    /\ host \in Hosts
    /\ pc = [c \in Calls |-> "idle"]
    /\ entry = [c \in Calls |-> "none"]
    /\ infer_native_flags = [c \in Calls |-> FALSE]
    /\ isa_builder = [c \in Calls |-> NoBuilder]
    /\ idx = [c \in Calls |-> 1]
    /\ vxrs_ext2 = [c \in Calls |-> FALSE]
    /\ result = [c \in Calls |-> NoResult]
    /\ CliIdle

\* return Err(m) / return Ok(b)
Return(c, r) ==
    /\ pc' = [pc EXCEPT ![c] = "done"]
    /\ result' = [result EXCEPT ![c] = r]

\* set dropping the result of Builder::set instead of unwrapping it.
set_ignoring_failure(c, name, detected, next) ==
    LET r == BuilderSet(isa_builder[c], name, FlagValue(detected)) IN
    /\ isa_builder' = [isa_builder EXCEPT ![c] = r.builder]
    /\ pc' = [pc EXCEPT ![c] = next]

\* set writing to one builder shared by all calls instead of the call's own.
set_shared(c, name, detected, next) ==
    LET r == BuilderSet(isa_builder[1], name, FlagValue(detected)) IN
    IF r.ok
    THEN /\ isa_builder' = [isa_builder EXCEPT ![1] = r.builder]
         /\ pc' = [pc EXCEPT ![c] = next]
    ELSE /\ isa_builder' = isa_builder
         /\ pc' = [pc EXCEPT ![c] = "panicked"]

\* The local helper set: isa_builder.set(name, ..).unwrap()
set(c, name, detected, next) ==
    LET r == BuilderSet(isa_builder[c], name, FlagValue(detected)) IN
    IF r.ok
    THEN /\ isa_builder' = [isa_builder EXCEPT ![c] = r.builder]
         /\ pc' = [pc EXCEPT ![c] = next]
    ELSE /\ isa_builder' = isa_builder
         /\ pc' = [pc EXCEPT ![c] = "panicked"]

(***************************************************************************)
(* Entry points.                                                           *)
(***************************************************************************)
builder_with_options(c, infer) ==
    /\ pc[c] = "idle"
    /\ pc' = [pc EXCEPT ![c] = "lookup"]
    /\ entry' = [entry EXCEPT ![c] = "builder_with_options"]
    /\ infer_native_flags' = [infer_native_flags EXCEPT ![c] = infer]
    /\ UNCHANGED <<host, isa_builder, idx, vxrs_ext2, result>>

\* builder() forwarding false.
builder_forwards_false(c) ==
    /\ pc[c] = "idle"
    /\ pc' = [pc EXCEPT ![c] = "lookup"]
    /\ entry' = [entry EXCEPT ![c] = "builder"]
    /\ infer_native_flags' = [infer_native_flags EXCEPT ![c] = FALSE]
    /\ UNCHANGED <<host, isa_builder, idx, vxrs_ext2, result>>

builder(c) ==
    /\ pc[c] = "idle"
    /\ pc' = [pc EXCEPT ![c] = "lookup"]
    /\ entry' = [entry EXCEPT ![c] = "builder"]
    /\ infer_native_flags' = [infer_native_flags EXCEPT ![c] = TRUE]
    /\ UNCHANGED <<host, isa_builder, idx, vxrs_ext2, result>>

(***************************************************************************)
(* Steps of builder_with_options.                                          *)
(***************************************************************************)
lookup(c) ==
    /\ pc[c] = "lookup"
    /\ IF host.lookup = "Ok"
       THEN /\ isa_builder' = [isa_builder EXCEPT ![c] = LookupBuilder(host)]
            /\ pc' = [pc EXCEPT ![c] = CfgBlock(host)]
            /\ UNCHANGED result
       ELSE /\ Return(c, Err(MapErr(host.lookup)))
            /\ UNCHANGED isa_builder
    /\ UNCHANGED <<host, entry, infer_native_flags, idx, vxrs_ext2>>

\* The baseline test placed after the mode test: skipped when not inferring.
x86_sse2_skippable(c) ==
    /\ pc[c] = "x86_sse2"
    /\ IF infer_native_flags[c] /\ BaselineMissing(host)
       THEN Return(c, Err("x86 support requires SSE2"))
       ELSE /\ pc' = [pc EXCEPT ![c] = "x86_mode"]
            /\ UNCHANGED result
    /\ UNCHANGED <<host, entry, infer_native_flags, isa_builder, idx, vxrs_ext2>>

x86_sse2(c) ==
    /\ pc[c] = "x86_sse2"
    /\ IF BaselineMissing(host)
       THEN Return(c, Err("x86 support requires SSE2"))
       ELSE /\ pc' = [pc EXCEPT ![c] = "x86_mode"]
            /\ UNCHANGED result
    /\ UNCHANGED <<host, entry, infer_native_flags, isa_builder, idx, vxrs_ext2>>

\* Detection done once per process: a call made after another call has
\* returned skips it.
x86_mode_once(c) ==
    /\ pc[c] = "x86_mode"
    /\ IF ~infer_native_flags[c] \/ (\E d \in Calls : d # c /\ pc[d] = "done")
       THEN Return(c, Ok(isa_builder[c]))
       ELSE /\ pc' = [pc EXCEPT ![c] = "x86_set"]
            /\ UNCHANGED result
    /\ UNCHANGED <<host, entry, infer_native_flags, isa_builder, idx, vxrs_ext2>>

\* The x86 block without its early return.
x86_mode_no_return(c) ==
    /\ pc[c] = "x86_mode"
    /\ pc' = [pc EXCEPT ![c] = "x86_set"]
    /\ UNCHANGED <<host, entry, infer_native_flags, isa_builder, idx, vxrs_ext2, result>>

x86_mode(c) ==
    /\ pc[c] = "x86_mode"
    /\ IF ~infer_native_flags[c]
       THEN Return(c, Ok(isa_builder[c]))
       ELSE /\ pc' = [pc EXCEPT ![c] = "x86_set"]
            /\ UNCHANGED result
    /\ UNCHANGED <<host, entry, infer_native_flags, isa_builder, idx, vxrs_ext2>>

\* The has_avx512f call pasted from the has_avx512dq call above it, the
\* feature name left unchanged.
x86_set_pasted(c) ==
    /\ pc[c] = "x86_set"
    /\ set(c, X86Table[idx[c]].name,
           IsX86FeatureDetected(host,
               IF X86Table[idx[c]].name = "has_avx512f" THEN "avx512dq"
               ELSE X86Table[idx[c]].feature),
           IF idx[c] = Len(X86Table) THEN "return" ELSE "x86_set")
    /\ idx' = [idx EXCEPT ![c] = idx[c] + 1]
    /\ UNCHANGED <<host, entry, infer_native_flags, vxrs_ext2, result>>

x86_set(c) ==
    /\ pc[c] = "x86_set"
    /\ set(c, X86Table[idx[c]].name,
           IsX86FeatureDetected(host, X86Table[idx[c]].feature),
           IF idx[c] = Len(X86Table) THEN "return" ELSE "x86_set")
    /\ idx' = [idx EXCEPT ![c] = idx[c] + 1]
    /\ UNCHANGED <<host, entry, infer_native_flags, vxrs_ext2, result>>

aarch64_mode(c) ==
    /\ pc[c] = "aarch64_mode"
    /\ IF ~infer_native_flags[c]
       THEN Return(c, Ok(isa_builder[c]))
       ELSE /\ pc' = [pc EXCEPT ![c] = "aarch64_set"]
            /\ UNCHANGED result
    /\ UNCHANGED <<host, entry, infer_native_flags, isa_builder, idx, vxrs_ext2>>

\* has_lse switched on without asking the hardware.
aarch64_set_unconditional(c) ==
    /\ pc[c] = "aarch64_set"
    /\ set(c, "has_lse", TRUE, "return")
    /\ UNCHANGED <<host, entry, infer_native_flags, idx, vxrs_ext2, result>>

aarch64_set(c) ==
    /\ pc[c] = "aarch64_set"
    /\ set(c, "has_lse", IsAarch64FeatureDetected(host, "lse"), "return")
    /\ UNCHANGED <<host, entry, infer_native_flags, idx, vxrs_ext2, result>>

s390x_mode(c) ==
    /\ pc[c] = "s390x_mode"
    /\ IF ~infer_native_flags[c]
       THEN Return(c, Ok(isa_builder[c]))
       ELSE /\ pc' = [pc EXCEPT ![c] = "s390x_getauxval"]
            /\ UNCHANGED result
    /\ UNCHANGED <<host, entry, infer_native_flags, isa_builder, idx, vxrs_ext2>>

s390x_getauxval(c) ==
    /\ pc[c] = "s390x_getauxval"
    /\ LET v == Getauxval(host) IN
       vxrs_ext2' = [vxrs_ext2 EXCEPT ![c] = (BitAnd(v, HWCAP_S390X_VXRS_EXT2) # 0)]
    /\ pc' = [pc EXCEPT ![c] = "s390x_set_vxrs_ext2"]
    /\ UNCHANGED <<host, entry, infer_native_flags, isa_builder, idx, result>>

s390x_set_vxrs_ext2(c) ==
    /\ pc[c] = "s390x_set_vxrs_ext2"
    /\ set(c, "has_vxrs_ext2", vxrs_ext2[c], "s390x_set_mie2")
    /\ UNCHANGED <<host, entry, infer_native_flags, idx, vxrs_ext2, result>>

s390x_set_mie2(c) ==
    /\ pc[c] = "s390x_set_mie2"
    /\ set(c, "has_mie2", vxrs_ext2[c], "return")
    /\ UNCHANGED <<host, entry, infer_native_flags, idx, vxrs_ext2, result>>

\* The final Ok(isa_builder).
return_ok(c) ==
    /\ pc[c] = "return"
    /\ Return(c, Ok(isa_builder[c]))
    /\ UNCHANGED <<host, entry, infer_native_flags, isa_builder, idx, vxrs_ext2>>

Step(c) ==
    \/ \E infer \in BOOLEAN : builder_with_options(c, infer)
    \/ builder(c)
    \/ lookup(c)
    \/ x86_sse2(c)
    \/ x86_mode(c)
    \/ x86_set(c)
    \/ aarch64_mode(c)
    \/ aarch64_set(c)
    \/ s390x_mode(c)
    \/ s390x_getauxval(c)
    \/ s390x_set_vxrs_ext2(c)
    \/ s390x_set_mie2(c)
    \/ return_ok(c)

Next ==
    /\ \E c \in Calls : InProgramOrder(c) /\ Step(c)
    /\ UNCHANGED cliVars

Spec == Init /\ [][Next]_vars

(***************************************************************************)
(* Calls made from several threads: their steps interleave freely.         *)
(***************************************************************************)
\* Hardware the hosts of the threaded runs report.
ConcFeatures == {{}, {"sse2"}, {"sse2", "avx2", "lzcnt"}, {"lse"}, {"mie2"}}

ConcHosts == {h \in Hosts : h.features \in ConcFeatures /\ h.hwcap \in {0, 32768}}

InitConc ==
    /\ host \in ConcHosts
    /\ pc = [c \in Calls |-> "idle"]
    /\ entry = [c \in Calls |-> "none"]
    /\ infer_native_flags = [c \in Calls |-> FALSE]
    /\ isa_builder = [c \in Calls |-> NoBuilder]
    /\ idx = [c \in Calls |-> 1]
    /\ vxrs_ext2 = [c \in Calls |-> FALSE]
    /\ result = [c \in Calls |-> NoResult]
    /\ CliIdle

NextConc ==
    /\ \E c \in Calls : Step(c)
    /\ UNCHANGED cliVars

SpecConc == InitConc /\ [][NextConc]_vars

(***************************************************************************)
(* Calls against a backend that may not know one of the setting names.     *)
(***************************************************************************)
FaultHosts ==
    {[h EXCEPT !.settings = ArchFlags(h.arch) \ m] :
        h \in ConcHosts,
        m \in {{}} \cup {{n} : n \in UNION {ArchFlags(a) : a \in Archs}}}

InitFault ==
    /\ host \in FaultHosts
    /\ pc = [c \in Calls |-> "idle"]
    /\ entry = [c \in Calls |-> "none"]
    /\ infer_native_flags = [c \in Calls |-> FALSE]
    /\ isa_builder = [c \in Calls |-> NoBuilder]
    /\ idx = [c \in Calls |-> 1]
    /\ vxrs_ext2 = [c \in Calls |-> FALSE]
    /\ result = [c \in Calls |-> NoResult]
    /\ CliIdle

SpecFault == InitFault /\ [][Next]_vars

(***************************************************************************)
(* One run of enable_wasm_features, on some command line, in some build.   *)
(***************************************************************************)
InitCli ==
    /\ host = CHOOSE h \in ConcHosts : h.arch = "x86_64" /\ h.lookup = "Ok"
    /\ pc = [c \in Calls |-> "idle"]
    /\ entry = [c \in Calls |-> "none"]
    /\ infer_native_flags = [c \in Calls |-> FALSE]
    /\ isa_builder = [c \in Calls |-> NoBuilder]
    /\ idx = [c \in Calls |-> 1]
    /\ vxrs_ext2 = [c \in Calls |-> FALSE]
    /\ result = [c \in Calls |-> NoResult]
    /\ component_model \in BOOLEAN
    /\ wasm \in WasmOptions
    /\ config = UntouchedConfig
    /\ ewf_pc = 0
    /\ ewf_result = "None"

NextCli ==
    /\ \/ enable_wasm_features
       \/ ewf_proposal
       \/ ewf_component_model
       \/ ewf_return
    /\ UNCHANGED resolverVars

SpecCli == InitCli /\ [][NextCli]_vars

TypeOK ==
    /\ host \in Hosts
    /\ \A c \in Calls :
          /\ result[c].kind \in {"None", "Ok", "Err"}
          /\ idx[c] \in 1..(Len(X86Table) + 1)
          /\ infer_native_flags[c] \in BOOLEAN

(***************************************************************************)
(* Vocabulary of the properties.                                           *)
(***************************************************************************)
Done(c) == pc[c] = "done"

Returned(c) == pc[c] \in Finished

\* The hardware capability each setting name stands for.
FlagCapability ==
    [n \in {"has_sse3", "has_ssse3", "has_sse41", "has_sse42", "has_popcnt",
            "has_avx", "has_avx2", "has_bmi1", "has_bmi2", "has_avx512bitalg",
            "has_avx512dq", "has_avx512f", "has_avx512vl", "has_avx512vbmi",
            "has_lzcnt", "has_lse", "has_vxrs_ext2", "has_mie2"} |->
        CASE n = "has_sse3" -> "sse3"
          [] n = "has_ssse3" -> "ssse3"
          [] n = "has_sse41" -> "sse4.1"
          [] n = "has_sse42" -> "sse4.2"
          [] n = "has_popcnt" -> "popcnt"
          [] n = "has_avx" -> "avx"
          [] n = "has_avx2" -> "avx2"
          [] n = "has_bmi1" -> "bmi1"
          [] n = "has_bmi2" -> "bmi2"
          [] n = "has_avx512bitalg" -> "avx512bitalg"
          [] n = "has_avx512dq" -> "avx512dq"
          [] n = "has_avx512f" -> "avx512f"
          [] n = "has_avx512vl" -> "avx512vl"
          [] n = "has_avx512vbmi" -> "avx512vbmi"
          [] n = "has_lzcnt" -> "lzcnt"
          [] n = "has_lse" -> "lse"
          [] n = "has_vxrs_ext2" -> "vxrs_ext2"
          [] n = "has_mie2" -> "mie2"]

\* Bit 32768 of the kernel capability vector.
HwcapBit15(h) == (h.hwcap \div 32768) % 2 = 1

\* An independent probe of one capability on the host.
Probe(h, cap) == IF cap = "vxrs_ext2" THEN HwcapBit15(h) ELSE cap \in h.features

Sse2Absent(h) == h.arch \in X86Archs /\ "sse2" \notin h.features

BaselineFailure == "x86 support requires SSE2"

\* The settings of b that were written since the lookup.
Written(b) == {n \in DOMAIN b.flags : b.flags[n] # "default"}

(***************************************************************************)
(* C1: on an x86 or x86_64 host whose SSE2 probe reports absent and whose  *)
(* lookup succeeds, every call, through builder(),                         *)
(* builder_with_options(true) or builder_with_options(false), returns the  *)
(* failure "x86 support requires SSE2"; no call gets past the baseline     *)
(* test and none returns a builder.                                        *)
(***************************************************************************)
C1_BaselineGating ==
    (Sse2Absent(host) /\ host.lookup = "Ok") =>
        \A c \in Calls :
            /\ pc[c] \in {"idle", "lookup", "x86_sse2", "done"}
            /\ result[c].kind # "Ok"
            /\ Done(c) => result[c] = Err("x86 support requires SSE2")

C1_Witness ==
    /\ Sse2Absent(host) /\ host.lookup = "Ok"
    /\ host.features = {"sse3", "avx2"}
    /\ \E c1, c2 \in Calls :
          /\ entry[c1] = "builder" /\ Done(c1)
          /\ entry[c2] = "builder_with_options" /\ ~infer_native_flags[c2] /\ Done(c2)
          /\ result[c1].msg = BaselineFailure /\ result[c2].msg = BaselineFailure

(***************************************************************************)
(* C2 as stated: every setting a returned builder has enabled stands for a *)
(* capability whose own hardware probe reports present.                    *)
(***************************************************************************)
C2_EveryEnabledFlagProbed ==
    \A c \in Calls :
        (Done(c) /\ result[c].kind = "Ok") =>
            \A n \in DOMAIN result[c].builder.flags :
                Enabled(result[c].builder, n) => Probe(host, FlagCapability[n])

(***************************************************************************)
(* C2 amended: every setting other than has_mie2 that a returned builder   *)
(* has enabled stands for a capability whose own hardware probe reports    *)
(* present; has_mie2 is enabled only when the probe of vxrs_ext2 reports   *)
(* present.                                                                *)
(***************************************************************************)
C2_EnabledFlagProbedExceptMie2 ==
    \A c \in Calls :
        (Done(c) /\ result[c].kind = "Ok") =>
            \A n \in DOMAIN result[c].builder.flags :
                Enabled(result[c].builder, n) =>
                    IF n = "has_mie2" THEN Probe(host, "vxrs_ext2")
                    ELSE Probe(host, FlagCapability[n])

C2_Witness ==
    \E c \in Calls :
        /\ Done(c) /\ result[c].kind = "Ok"
        /\ host.arch = "x86_64" /\ host.features = {"sse2", "avx512dq", "popcnt"}
        /\ {n \in DOMAIN result[c].builder.flags : Enabled(result[c].builder, n)}
              = {"has_avx512dq", "has_popcnt"}

(***************************************************************************)
(* C3: when the lookup succeeds and the baseline is satisfied,             *)
(* builder_with_options(false) returns exactly the builder the lookup      *)
(* produced: no setting has been written, on any architecture.             *)
(***************************************************************************)
C3_SkipModeReturnsLookupBuilder ==
    \A c \in Calls :
        (Returned(c) /\ ~infer_native_flags[c] /\ host.lookup = "Ok" /\ ~Sse2Absent(host)) =>
            /\ Done(c)
            /\ result[c].kind = "Ok"
            /\ result[c].builder = LookupBuilder(host)
            /\ Written(result[c].builder) = {}

C3_Witness ==
    \E c \in Calls :
        /\ Done(c) /\ ~infer_native_flags[c]
        /\ host.arch = "x86_64" /\ host.features = {"sse2", "avx2", "lzcnt"}
        /\ result[c] = Ok(LookupBuilder(host))

(***************************************************************************)
(* C4: on every host, a call with infer_native_flags = true and a call     *)
(* with infer_native_flags = false agree on success versus failure and on  *)
(* the failure; two returned builders are builders of the same backend     *)
(* with the same setting names, and differ at most in setting values.      *)
(***************************************************************************)
C4_ModesAgreeOnOutcome ==
    \A c1, c2 \in Calls :
        (Returned(c1) /\ Returned(c2) /\ infer_native_flags[c1] /\ ~infer_native_flags[c2]) =>
            /\ pc[c1] = pc[c2]
            /\ result[c1].kind = result[c2].kind
            /\ result[c1].msg = result[c2].msg
            /\ result[c1].builder.arch = result[c2].builder.arch
            /\ DOMAIN result[c1].builder.flags = DOMAIN result[c2].builder.flags

C4_Witness ==
    /\ Sse2Absent(host) /\ host.lookup = "Ok"
    /\ \E c1, c2 \in Calls :
          /\ entry[c1] = "builder_with_options" /\ entry[c2] = "builder_with_options"
          /\ infer_native_flags[c1] /\ ~infer_native_flags[c2]
          /\ Done(c1) /\ Done(c2)
          /\ result[c1] = Err(BaselineFailure) /\ result[c2] = Err(BaselineFailure)

(***************************************************************************)
(* C5: a call returns a failure exactly when the lookup failed or the host *)
(* is x86/x86_64 without SSE2, and a builder otherwise; no call ends in    *)
(* anything but a returned builder or a returned failure, and a call that  *)
(* has started always has a next step until it returns.                    *)
(***************************************************************************)
FailureCondition(h) == h.lookup # "Ok" \/ Sse2Absent(h)

C5_FailureIffFailureCondition ==
    \A c \in Calls :
        /\ pc[c] # "panicked"
        /\ Done(c) =>
              /\ result[c].kind \in {"Ok", "Err"}
              /\ result[c].kind = "Err" <=> FailureCondition(host)
              /\ result[c].kind = "Ok" => result[c].builder.arch = host.arch
        /\ ~Done(c) => result[c] = NoResult
        /\ (pc[c] \notin Finished \cup {"idle"}) => ENABLED Step(c)

C5_Witness ==
    \E c1, c2 \in Calls :
        /\ host.arch = "x86" /\ host.lookup = "Ok" /\ host.features = {"sse2"}
        /\ Done(c1) /\ Done(c2)
        /\ infer_native_flags[c1] /\ ~infer_native_flags[c2]
        /\ result[c1].kind = "Ok" /\ result[c2].kind = "Ok"

(***************************************************************************)
(* C6: the lookup runs before the baseline test, and its two failure       *)
(* reasons become two different failures: SupportDisabled gives "support   *)
(* for architecture disabled at compile time", Unsupported gives           *)
(* "unsupported architecture". When the lookup fails the call returns that *)
(* failure, never "x86 support requires SSE2", whatever the SSE2 probe and *)
(* the detection mode are, and the baseline test is never reached.         *)
(***************************************************************************)
C6_LookupFailureFirst ==
    \A c \in Calls :
        /\ pc[c] = "x86_sse2" => host.lookup = "Ok"
        /\ host.lookup # "Ok" =>
              /\ pc[c] \in {"idle", "lookup", "done"}
              /\ Done(c) =>
                    /\ result[c].kind = "Err"
                    /\ result[c].msg # BaselineFailure
                    /\ host.lookup = "SupportDisabled" =>
                          result[c].msg = "support for architecture disabled at compile time"
                    /\ host.lookup = "Unsupported" =>
                          result[c].msg = "unsupported architecture"

C6_Witness ==
    /\ Sse2Absent(host) /\ host.lookup = "SupportDisabled"
    /\ \E c1, c2 \in Calls :
          /\ Done(c1) /\ Done(c2)
          /\ infer_native_flags[c1] /\ ~infer_native_flags[c2]
          /\ result[c1].msg = "support for architecture disabled at compile time"
          /\ result[c2].msg = "support for architecture disabled at compile time"

(***************************************************************************)
(* C7: on an x86_64 host with SSE2 present and a successful lookup,        *)
(* builder() returns a builder in which each of the fifteen optional x86   *)
(* settings is enabled exactly when the probe of its own capability        *)
(* reports present, and written as disabled otherwise; with sse2, avx2 and *)
(* lzcnt present and the rest absent, has_avx2 and has_lzcnt are enabled   *)
(* and every other setting is disabled.                                    *)
(***************************************************************************)
X86FlagNames ==
    {"has_sse3", "has_ssse3", "has_sse41", "has_sse42", "has_popcnt", "has_avx",
     "has_avx2", "has_bmi1", "has_bmi2", "has_avx512bitalg", "has_avx512dq",
     "has_avx512f", "has_avx512vl", "has_avx512vbmi", "has_lzcnt"}

C7_X86FlagsFollowProbes ==
    \A c \in Calls :
        (Returned(c) /\ entry[c] = "builder" /\ host.arch = "x86_64"
            /\ "sse2" \in host.features /\ host.lookup = "Ok") =>
            /\ Done(c) /\ result[c].kind = "Ok"
            /\ DOMAIN result[c].builder.flags = X86FlagNames
            /\ \A n \in X86FlagNames :
                  /\ Enabled(result[c].builder, n) <=> Probe(host, FlagCapability[n])
                  /\ result[c].builder.flags[n] =
                        (IF FlagCapability[n] \in host.features THEN "1" ELSE "0")
            /\ host.features = {"sse2", "avx2", "lzcnt"} =>
                  /\ Enabled(result[c].builder, "has_avx2")
                  /\ ~Enabled(result[c].builder, "has_avx512f")
                  /\ Enabled(result[c].builder, "has_lzcnt")
                  /\ \A n \in X86FlagNames \ {"has_avx2", "has_lzcnt"} :
                        ~Enabled(result[c].builder, n)

C7_Witness ==
    \E c \in Calls :
        /\ Done(c) /\ entry[c] = "builder"
        /\ host.arch = "x86_64" /\ host.features = {"sse2", "avx2", "lzcnt"}
        /\ result[c].kind = "Ok"
        /\ result[c].builder.flags["has_avx2"] = "1"
        /\ result[c].builder.flags["has_avx512f"] = "0"
        /\ result[c].builder.flags["has_lzcnt"] = "1"

(***************************************************************************)
(* C8: builder() is builder_with_options(true): it runs with               *)
(* infer_native_flags = true, and on every host a call through builder()   *)
(* and a call through builder_with_options(true) return the same failure   *)
(* or builders with the same settings.                                     *)
(***************************************************************************)
C8_BuilderIsInferTrue ==
    \A c1, c2 \in Calls :
        /\ entry[c1] = "builder" => infer_native_flags[c1]
        /\ (Returned(c1) /\ Returned(c2) /\ entry[c1] = "builder"
               /\ entry[c2] = "builder_with_options" /\ infer_native_flags[c2]) =>
              /\ pc[c1] = pc[c2]
              /\ result[c1] = result[c2]

C8_Witness ==
    \E c1, c2 \in Calls :
        /\ entry[c1] = "builder" /\ entry[c2] = "builder_with_options"
        /\ infer_native_flags[c2]
        /\ Done(c1) /\ Done(c2)
        /\ host.arch = "x86_64" /\ host.features = {"sse2", "bmi1", "bmi2"}
        /\ result[c1].kind = "Ok" /\ result[c2] = result[c1]
        /\ Written(result[c1].builder) = X86FlagNames

(***************************************************************************)
(* C9: on an aarch64 host whose lookup succeeds, builder() never fails and *)
(* never returns the baseline failure, and the builder it returns has      *)
(* has_lse at the value of the LSE probe: disabled when LSE is absent.     *)
(***************************************************************************)
C9_Aarch64LseFollowsProbe ==
    \A c \in Calls :
        (host.arch = "aarch64" /\ host.lookup = "Ok" /\ entry[c] = "builder") =>
            /\ pc[c] # "panicked"
            /\ result[c].kind # "Err"
            /\ Done(c) =>
                  /\ result[c].kind = "Ok"
                  /\ Enabled(result[c].builder, "has_lse") <=> "lse" \in host.features
                  /\ result[c].builder.flags["has_lse"] \in {"0", "1"}

C9_Witness ==
    \E c \in Calls :
        /\ host.arch = "aarch64" /\ host.lookup = "Ok" /\ "lse" \notin host.features
        /\ entry[c] = "builder" /\ Done(c)
        /\ result[c].kind = "Ok"
        /\ result[c].builder.flags["has_lse"] = "0"

(***************************************************************************)
(* C10: on an s390x Linux host, a call with infer_native_flags = true      *)
(* returns a builder in which has_vxrs_ext2 is enabled exactly when bit    *)
(* 32768 of AT_HWCAP is set, and has_mie2 has the value of has_vxrs_ext2,  *)
(* whatever the hardware says about mie2.                                  *)
(***************************************************************************)
C10_S390xFlagsFromHwcap ==
    \A c \in Calls :
        (host.arch = "s390x" /\ host.os = "linux" /\ host.lookup = "Ok"
            /\ infer_native_flags[c] /\ Returned(c)) =>
            /\ Done(c) /\ result[c].kind = "Ok"
            /\ Enabled(result[c].builder, "has_vxrs_ext2") <=> HwcapBit15(host)
            /\ result[c].builder.flags["has_mie2"] = result[c].builder.flags["has_vxrs_ext2"]
            /\ result[c].builder.flags["has_vxrs_ext2"] \in {"0", "1"}

C10_Witness ==
    \E c \in Calls :
        /\ host.arch = "s390x" /\ host.os = "linux" /\ host.lookup = "Ok"
        /\ host.hwcap = 49152 /\ "mie2" \notin host.features
        /\ infer_native_flags[c] /\ Done(c)
        /\ result[c].builder.flags["has_vxrs_ext2"] = "1"
        /\ result[c].builder.flags["has_mie2"] = "1"

(***************************************************************************)
(* C11: the host does not change, and two calls of builder() made one      *)
(* after the other on it return the same outcome: the same failure, or     *)
(* builders with the same settings. The second call starts from fresh      *)
(* locals, whatever the first call left.                                   *)
(***************************************************************************)
C11_Deterministic ==
    /\ [][host' = host]_vars
    /\ [](\A c1, c2 \in Calls :
            /\ (pc[c2] = "idle" /\ Returned(c1)) =>
                  /\ isa_builder[c2] = NoBuilder
                  /\ result[c2] = NoResult
                  /\ idx[c2] = 1
            /\ (c1 < c2 /\ entry[c1] = "builder" /\ entry[c2] = "builder"
                   /\ Returned(c1) /\ Returned(c2)) =>
                  /\ pc[c1] = pc[c2]
                  /\ result[c1] = result[c2])

C11_Witness ==
    \E c1, c2 \in Calls :
        /\ c1 < c2 /\ entry[c1] = "builder" /\ entry[c2] = "builder"
        /\ Done(c1) /\ Done(c2)
        /\ host.arch = "x86" /\ host.features = {"sse2", "ssse3", "avx"}
        /\ result[c1].kind = "Ok" /\ result[c2] = result[c1]
        /\ Enabled(result[c2].builder, "has_ssse3")

(***************************************************************************)
(* C14: on a host that is neither x86/x86_64, aarch64 nor s390x on Linux   *)
(* (s390x on another operating system included) and whose lookup           *)
(* succeeds, no call reaches a set step, in either mode: every call        *)
(* returns the builder of the lookup with no setting written, and none     *)
(* fails.                                                                  *)
(***************************************************************************)
OtherHost(h) ==
    /\ h.arch \notin {"x86", "x86_64", "aarch64"}
    /\ ~(h.arch = "s390x" /\ h.os = "linux")

C14_OtherArchUnmodified ==
    (OtherHost(host) /\ host.lookup = "Ok") =>
        \A c \in Calls :
            /\ pc[c] \in {"idle", "lookup", "return", "done"}
            /\ isa_builder[c] \in {NoBuilder, LookupBuilder(host)}
            /\ result[c].kind # "Err"
            /\ Done(c) =>
                  /\ result[c] = Ok(LookupBuilder(host))
                  /\ Written(result[c].builder) = {}

C14_Witness ==
    /\ host.arch = "s390x" /\ host.os = "unknown" /\ host.lookup = "Ok"
    /\ host.hwcap = 32768
    /\ \E c1, c2 \in Calls :
          /\ infer_native_flags[c1] /\ ~infer_native_flags[c2]
          /\ Done(c1) /\ Done(c2)
          /\ result[c1] = Ok(LookupBuilder(host)) /\ result[c2] = result[c1]
          /\ DOMAIN result[c1].builder.flags = {"has_vxrs_ext2", "has_mie2"}

(***************************************************************************)
(* C12: with the steps of the calls interleaved in every order, a step     *)
(* changes the locals (the builder included) of one call only and never    *)
(* the host, a builder changes only in a lookup or set step of its own     *)
(* call, and every call returns what it returns when it runs alone on the  *)
(* same host with the same argument.                                       *)
(***************************************************************************)
Locals(c) ==
    <<pc[c], entry[c], infer_native_flags[c], isa_builder[c], idx[c],
      vxrs_ext2[c], result[c]>>

\* The setting value a call running alone leaves in its builder.
AloneFlag(h, infer, n) ==
    IF ~infer \/ OtherHost(h) THEN "default"
    ELSE IF n = "has_mie2" THEN (IF HwcapBit15(h) THEN "1" ELSE "0")
    ELSE IF Probe(h, FlagCapability[n]) THEN "1" ELSE "0"

\* The outcome of a call running alone.
AloneResult(h, infer) ==
    IF h.lookup = "SupportDisabled"
    THEN Err("support for architecture disabled at compile time")
    ELSE IF h.lookup = "Unsupported" THEN Err("unsupported architecture")
    ELSE IF Sse2Absent(h) THEN Err("x86 support requires SSE2")
    ELSE Ok([arch |-> h.arch,
             flags |-> [n \in ArchFlags(h.arch) |-> AloneFlag(h, infer, n)]])

C12_CallsDoNotInterfere ==
    /\ [](\A c \in Calls :
            /\ pc[c] # "panicked"
            /\ Done(c) => result[c] = AloneResult(host, infer_native_flags[c]))
    /\ [][/\ host' = host
          /\ \E c \in Calls :
                /\ \A d \in Calls \ {c} : Locals(d)' = Locals(d)
                /\ isa_builder[c]' # isa_builder[c] =>
                      pc[c] \in {"lookup", "x86_set", "aarch64_set",
                                 "s390x_set_vxrs_ext2", "s390x_set_mie2"}]_vars

C12_Witness ==
    \E c1, c2 \in Calls :
        /\ host.arch = "x86_64" /\ host.features = {"sse2", "avx2", "lzcnt"}
        /\ pc[c1] = "x86_set" /\ idx[c1] = 8
        /\ isa_builder[c1].flags["has_avx2"] = "1"
        /\ isa_builder[c1].flags["has_lzcnt"] = "default"
        /\ c2 > c1 /\ Done(c2) /\ infer_native_flags[c2]
        /\ result[c2].kind = "Ok"
        /\ result[c2].builder.flags["has_lzcnt"] = "1"

(***************************************************************************)
(* C13: also against a backend that rejects one of the setting names, a    *)
(* failed set ends the call in a panic: the call returns neither a builder *)
(* nor a failure, a returned failure always has a lookup or baseline       *)
(* cause, and a builder returned in full-detection mode has every setting  *)
(* of the host's block written. A call panics only at a name the backend   *)
(* rejects: against a backend that knows every name of the host's          *)
(* architecture family no call panics.                                     *)
(***************************************************************************)
\* The setting names the resolver writes on a host.
UsedNames(h) ==
    IF h.arch \in X86Archs THEN X86FlagNames
    ELSE IF h.arch = "aarch64" THEN {"has_lse"}
    ELSE IF h.arch = "s390x" /\ h.os = "linux" THEN {"has_vxrs_ext2", "has_mie2"}
    ELSE {}

C13_SetFailureIsPanic ==
    \A c \in Calls :
        /\ UsedNames(host) \subseteq ArchFlags(host.arch)
        /\ pc[c] = "panicked" =>
              /\ result[c] = NoResult
              /\ infer_native_flags[c]
              /\ ~(UsedNames(host) \subseteq host.settings)
        /\ host.settings = ArchFlags(host.arch) => pc[c] # "panicked"
        /\ result[c].kind = "Err" => FailureCondition(host)
        /\ (Done(c) /\ result[c].kind = "Ok" /\ infer_native_flags[c]) =>
              /\ UsedNames(host) \subseteq DOMAIN result[c].builder.flags
              /\ \A n \in UsedNames(host) : result[c].builder.flags[n] \in {"0", "1"}
        /\ (Returned(c) /\ infer_native_flags[c] /\ ~FailureCondition(host)
               /\ ~(UsedNames(host) \subseteq host.settings)) => pc[c] = "panicked"

C13_Witness ==
    \E c \in Calls :
        /\ host.arch = "x86_64" /\ host.features = {"sse2", "avx2", "lzcnt"}
        /\ host.settings = ArchFlags("x86_64") \ {"has_avx512vbmi"}
        /\ pc[c] = "panicked" /\ idx[c] = 15
        /\ isa_builder[c].flags["has_avx2"] = "1"
        /\ result[c] = NoResult

(***************************************************************************)
(* Vocabulary of the enable_wasm_features properties.                      *)
(***************************************************************************)
\* The Config setting of each proposal option.
SettingOf ==
    [o \in ProposalOptions |->
        CASE o = "simd" -> "wasm_simd"
          [] o = "relaxed_simd" -> "wasm_relaxed_simd"
          [] o = "bulk_memory" -> "wasm_bulk_memory"
          [] o = "reference_types" -> "wasm_reference_types"
          [] o = "function_references" -> "wasm_function_references"
          [] o = "multi_value" -> "wasm_multi_value"
          [] o = "tail_call" -> "wasm_tail_call"
          [] o = "threads" -> "wasm_threads"
          [] o = "multi_memory" -> "wasm_multi_memory"
          [] o = "memory64" -> "wasm_memory64"
          [] o = "component_model" -> "wasm_component_model"]

\* The proposal's own option when it is set, otherwise all_proposals.
Effective(o) == IF wasm[o] # << >> THEN wasm[o] ELSE wasm["all_proposals"]

EwfReturned == ewf_pc = EwfDone

EwfFailed == ewf_result \notin {"None", "Ok"}

\* The call fails exactly when the effective component-model value is true
\* and all_proposals is unset.
CompiledOutFailure ==
    ~component_model =>
        (EwfFailed <=> (Effective("component_model") = <<TRUE>>
                           /\ wasm["all_proposals"] = << >>))

(***************************************************************************)
(* C15 as stated: when enable_wasm_features has returned, the setting of   *)
(* each of the eleven proposals holds the proposal's own option when it is *)
(* set, otherwise all_proposals, and is untouched when neither is set; in  *)
(* a build without component-model support the call fails exactly when     *)
(* the effective component_model value is true and all_proposals is unset. *)
(***************************************************************************)
C15_EveryProposalApplied ==
    EwfReturned =>
        /\ \A o \in ProposalOptions : config[SettingOf[o]] = Effective(o)
        /\ CompiledOutFailure

(***************************************************************************)
(* C15 amended: the same for the ten proposals other than component_model, *)
(* and for component_model in a build with component-model support; in a   *)
(* build without it the component-model setting is never touched, and the  *)
(* call fails exactly when the effective component_model value is true and *)
(* all_proposals is unset. In a build with it the call never fails.        *)
(***************************************************************************)
C15_ProposalAppliedWhereCompiledIn ==
    EwfReturned =>
        /\ \A o \in ProposalOptions \ {"component_model"} :
              config[SettingOf[o]] = Effective(o)
        /\ component_model =>
              /\ config["wasm_component_model"] = Effective("component_model")
              /\ ~EwfFailed
        /\ ~component_model => config["wasm_component_model"] = << >>
        /\ CompiledOutFailure

C15_Witness ==
    /\ EwfReturned /\ ~component_model
    /\ wasm["all_proposals"] = << >>
    /\ wasm["component_model"] = <<TRUE>> /\ wasm["simd"] = <<FALSE>>
    /\ EwfFailed
    /\ config["wasm_simd"] = <<FALSE>>
    /\ config["wasm_threads"] = << >>
    /\ config["wasm_component_model"] = << >>

====
